---- MODULE Spec2Model ----
(***************************************************************************)
(* EdututorAI: the quiz-output parser (backend/services/gemini_service.py)  *)
(* and the quiz router (backend/routers/quiz.py).                           *)
(*                                                                         *)
(* A Python str is a sequence of tokens; a token is a piece of text that    *)
(* the code never looks inside (a word, a keyword with its colon, one      *)
(* letter, one blank, one line break).  The text "ANSWER: Both" is the      *)
(* sequence <<"ANSWER:", " ", "B", "oth">>.                                 *)
(***************************************************************************)
EXTENDS Integers, Sequences, FiniteSets, TLC

\* ------------------------------------------------------------------ bounds
\* The largest number of question blocks of a composed model output.
MaxBlocks == 3

\* The largest number of requests the router handles in a run.
MaxRequests == 2

\* ------------------------------------------------------------ str helpers
SetMin(S) == CHOOSE x \in S : \A y \in S : x <= y

SetMax(S) == CHOOSE x \in S : \A y \in S : x >= y

\* str.isspace(), regex \s
IsSpace(c) == c \in {" ", "\n"}

\* str.strip()
Strip(s) ==
    LET keep == {i \in 1..Len(s) : ~IsSpace(s[i])}
    IN  IF keep = {} THEN <<>> ELSE SubSeq(s, SetMin(keep), SetMax(keep))

\* str.split(sep) / re.split(pattern): the pieces between the separators
RECURSIVE SplitTok(_, _)
SplitTok(s, seps) ==
    LET at == {i \in 1..Len(s) : s[i] \in seps}
    IN  IF at = {} THEN <<s>>
        ELSE LET p == SetMin(at)
             IN  <<SubSeq(s, 1, p - 1)>> \o SplitTok(SubSeq(s, p + 1, Len(s)), seps)

\* str.upper() on one letter
Upper(c) ==
    CASE c = "a" -> "A" [] c = "b" -> "B" [] c = "c" -> "C" [] c = "d" -> "D"
      [] OTHER -> c

\* the text of "Question k:" for k = 1, 2, ...
Marker(k) ==
    <<"Question 1:", "Question 2:", "Question 3:", "Question 4:",
      "Question 5:", "Question 6:", "Question 7:", "Question 8:">>[k]

\* r'Question \d+:' with re.IGNORECASE
MarkerToks == {Marker(k) : k \in 1..8} \cup {"question 1:", "QUESTION 1:"}

\* [A-D] with re.IGNORECASE
IsOptLetter(c) == c \in {"A", "B", "C", "D", "a", "b", "c", "d"}

\* 'ANSWER:' with re.IGNORECASE
IsAnswerKw(c) == c \in {"ANSWER:", "answer:", "Answer:"}

NonEmpty(s) == s # <<>>

\* ------------------------------------------------------------- the parser
\* python's None for correct_answer
None == "None"

\* lines = [line.strip() for line in block.strip().split('\n') if line.strip()]
BlockLines(block) ==
    LET raw == SplitTok(Strip(block), {"\n"})
    IN  SelectSeq([i \in 1..Len(raw) |-> Strip(raw[i])], NonEmpty)

\* re.match(r'^([A-D])\)\s*(.+)$', line, re.IGNORECASE)
OptionMatches(line) ==
    /\ Len(line) >= 3
    /\ IsOptLetter(line[1])
    /\ line[2] = ")"

\* option_match.group(1).upper()
OptionLetter(line) == Upper(line[1])

\* (mutant) the blank after "A)" is kept
OptionText_NoStrip(line) == SubSeq(line, 3, Len(line))

\* option_match.group(2).strip()
OptionText(line) == Strip(SubSeq(line, 3, Len(line)))

\* line.startswith('ANSWER:')
StartsWithAnswer(line) == Len(line) >= 1 /\ line[1] = "ANSWER:"

\* the loop over lines[1:]: options, option_texts and answer_line_idx (0-based
\* python index; -1 when no line starts with ANSWER:)
RECURSIVE ScanOptions(_, _, _, _)
ScanOptions(lines, i, options, option_texts) ==
    IF i > Len(lines) - 1
    THEN [options |-> options, option_texts |-> option_texts, answer_line_idx |-> -1]
    ELSE LET line == lines[i + 1]
         IN  IF OptionMatches(line)
             THEN ScanOptions(lines, i + 1, Append(options, OptionLetter(line)),
                              Append(option_texts, OptionText(line)))
             ELSE IF StartsWithAnswer(line)
             THEN [options |-> options, option_texts |-> option_texts,
                   answer_line_idx |-> i]
             ELSE ScanOptions(lines, i + 1, options, option_texts)

\* re.search(r'ANSWER:\s*([A-D])', answer_line, re.IGNORECASE): the leftmost
\* keyword that is followed, after blanks, by a letter; None without one
AnswerMatch(line) ==
    LET after(i) == {j \in (i + 1)..Len(line) : ~IsSpace(line[j])}
        hits == {i \in 1..Len(line) :
                    /\ IsAnswerKw(line[i])
                    /\ after(i) # {}
                    /\ IsOptLetter(line[SetMin(after(i))])}
    IN  IF hits = {} THEN None
        ELSE Upper(line[SetMin({j \in (SetMin(hits) + 1)..Len(line) : ~IsSpace(line[j])})])

\* line.startswith('EXPLANATION:')
StartsWithExplanation(line) == Len(line) >= 1 /\ line[1] = "EXPLANATION:"

\* line.startswith('Question')
StartsWithQuestion(line) == Len(line) >= 1 /\ line[1] \in {"Question"} \cup {Marker(k) : k \in 1..8}

\* the loop over lines[answer_line_idx + 1:] that collects the explanation
RECURSIVE ScanExplanation(_, _, _)
ScanExplanation(lines, i, explanation) ==
    IF i > Len(lines) - 1 THEN explanation
    ELSE LET line == lines[i + 1]
         IN  IF StartsWithExplanation(line)
             THEN ScanExplanation(lines, i + 1, Strip(SubSeq(line, 2, Len(line))))
             ELSE IF explanation # <<>> /\ ~StartsWithQuestion(line)
             THEN ScanExplanation(lines, i + 1, explanation \o <<" ">> \o line)
             ELSE explanation

\* (mutant) no text is made up for a missing explanation
DefaultExplanation_Empty(correct_answer) == <<>>

\* f"The correct answer is {correct_answer}."
DefaultExplanation(correct_answer) == <<"The correct answer is ", correct_answer, ".">>

\* "if len(options) != 4 or len(option_texts) != 4: continue"
WrongOptionCount(options, option_texts) == Len(options) # 4 \/ Len(option_texts) # 4

\* (mutant) the letter is not checked
Validates_NoLetterCheck(question_text, option_texts, correct_answer) ==
    question_text # <<>> /\ Len(option_texts) = 4

\* "if question_text and len(option_texts) == 4 and correct_answer and
\*  correct_answer in ['A', 'B', 'C', 'D']"
Validates(question_text, option_texts, correct_answer) ==
    /\ question_text # <<>>
    /\ Len(option_texts) = 4
    /\ correct_answer # None
    /\ correct_answer \in {"A", "B", "C", "D"}

\* the body of the loop over question_blocks[1:]: the questions (none or one)
\* that one block appends
ParseBlock(block) ==
    IF Strip(block) = <<>> THEN <<>>
    ELSE LET lines == BlockLines(block)
         IN  IF Len(lines) < 6 THEN <<>>
             ELSE LET question_text == lines[1]
                      scan == ScanOptions(lines, 1, <<>>, <<>>)
                  IN  IF WrongOptionCount(scan.options, scan.option_texts) THEN <<>>
                      ELSE LET idx == scan.answer_line_idx
                               correct_answer ==
                                   IF idx > 0 THEN AnswerMatch(lines[idx + 1]) ELSE None
                               explanation ==
                                   IF idx > 0 THEN ScanExplanation(lines, idx + 1, <<>>)
                                   ELSE <<>>
                           IN  IF Validates(question_text, scan.option_texts, correct_answer)
                               THEN <<[question |-> question_text,
                                       options |-> scan.option_texts,
                                       correct_answer |-> correct_answer,
                                       explanation |->
                                           IF explanation # <<>> THEN explanation
                                           ELSE DefaultExplanation(correct_answer)]>>
                               ELSE <<>>

\* (mutant) "return" in the place of "continue": only the first block counts
ParseBlocks_FirstOnly(question_blocks, i) ==
    IF i > Len(question_blocks) THEN <<>> ELSE ParseBlock(question_blocks[i])

\* for block in question_blocks[1:]: ... questions.append(...)
RECURSIVE ParseBlocks(_, _)
ParseBlocks(question_blocks, i) ==
    IF i > Len(question_blocks) THEN <<>>
    ELSE ParseBlock(question_blocks[i]) \o ParseBlocks(question_blocks, i + 1)

\* (mutant) no fallback question
EmptyFallback == <<>>

\* (mutant) the fallback question lacks its last option
ShortFallback ==
    <<[question |-> <<"What is a key concept in the topic we are studying?">>,
       options |-> <<<<"Concept A">>, <<"Concept B">>, <<"Concept C">>>>,
       correct_answer |-> "A",
       explanation |-> <<"This is a basic question about the topic.">>]>>

\* the fallback of "if not questions"
NoQuestionsFallback ==
    <<[question |-> <<"What is a key concept in the topic we are studying?">>,
       options |-> <<<<"Concept A">>, <<"Concept B">>, <<"Concept C">>, <<"Concept D">>>>,
       correct_answer |-> "A",
       explanation |-> <<"This is a basic question about the topic.">>]>>

\* the fallback of "except Exception"
ExceptionFallback ==
    <<[question |-> <<"What is an important aspect of this subject?">>,
       options |-> <<<<"Option A">>, <<"Option B">>, <<"Option C">>, <<"Option D">>>>,
       correct_answer |-> "A",
       explanation |-> <<"This is a fallback question due to parsing error.">>]>>

\* GeminiService.parse_quiz_output.  The argument is a python value
\* [type, val]; re.split raises TypeError on a value that is not a str, and
\* the except clause turns it into the fallback.  raised: an exception leaves
\* the function.
parse_quiz_output(text_in) ==
    IF text_in.type # "str"
    THEN [raised |-> FALSE, value |-> ExceptionFallback]
    ELSE LET question_blocks == SplitTok(text_in.val, MarkerToks)
             questions == ParseBlocks(question_blocks, 2)
         IN  [raised |-> FALSE,
              value |-> IF questions = <<>> THEN NoQuestionsFallback ELSE questions]

\* ------------------------------------------------- model outputs (inputs)
\* Questions to render.  Q0 and Q1 are plain; the others carry a padded
\* option text, an empty explanation, a question text of two lines.
Q0 ==
    [question |-> <<"What is the capital of France?">>,
     options |-> <<<<"Paris">>, <<"London">>, <<"Berlin">>, <<"Madrid">>>>,
     correct_answer |-> "A",
     explanation |-> <<"Paris is the capital.">>]

Q1 ==
    [question |-> <<"Which planet is closest to the Sun?">>,
     options |-> <<<<"Venus">>, <<"Mercury">>, <<"Earth">>, <<"Mars">>>>,
     correct_answer |-> "B",
     explanation |-> <<"Mercury", " ", "is closest.">>]

QPad == [Q1 EXCEPT !.options[3] = <<" ", "Earth">>]

QNoExpl == [Q1 EXCEPT !.explanation = <<>>]

QTwoLine == [Q1 EXCEPT !.question = <<"Consider the planets.", "\n", "Which is closest?">>]

QuestionSet == {Q0, Q1, QPad, QNoExpl, QTwoLine}

LETTERS == <<"A", "B", "C", "D">>

\* A block to render: the question, the letters of its option lines, the
\* text after "ANSWER: " (has_answer: there is an answer line), and whether
\* there is an explanation line.
Canonical(q) ==
    [q |-> q, letters |-> LETTERS, has_answer |-> TRUE,
     answer |-> <<q.correct_answer>>, has_expl |-> TRUE]

Defective(q, defect) ==
    CASE defect = "missing_option" -> [Canonical(q) EXCEPT !.letters = <<"A", "B", "C">>]
      [] defect = "dup_letter"     -> [Canonical(q) EXCEPT !.letters = <<"A", "A", "B", "C">>]
      [] defect = "no_answer"      -> [Canonical(q) EXCEPT !.has_answer = FALSE]
      [] defect = "answer_E"       -> [Canonical(q) EXCEPT !.answer = <<"E">>]
      [] defect = "answer_word"    -> [Canonical(q) EXCEPT !.answer = <<"B", "oth">>]
      [] defect = "no_explanation" -> [Canonical(q) EXCEPT !.has_expl = FALSE]

Defects ==
    {"missing_option", "dup_letter", "no_answer", "answer_E", "answer_word",
     "no_explanation"}

BlockSet == {Canonical(q) : q \in QuestionSet} \cup {Defective(Q0, d) : d \in Defects}

\* the option lines "A) ...", "B) ..." of a block
RECURSIVE RenderOptions(_, _)
RenderOptions(d, i) ==
    IF i > Len(d.letters) THEN <<>>
    ELSE <<d.letters[i], ")", " ">> \o d.q.options[i] \o <<"\n">> \o RenderOptions(d, i + 1)

\* The layout build_prompt prescribes: "Question k:", the question on the
\* next line, the option lines, "ANSWER: ", "EXPLANATION: ", a blank line.
Render(k, d) ==
    <<Marker(k), "\n">> \o d.q.question \o <<"\n">>
    \o RenderOptions(d, 1)
    \o (IF d.has_answer THEN <<"ANSWER:", " ">> \o d.answer \o <<"\n">> ELSE <<>>)
    \o (IF d.has_expl THEN <<"EXPLANATION:", " ">> \o d.q.explanation \o <<"\n">> ELSE <<>>)
    \o <<"\n">>

RECURSIVE RenderAll(_, _)
RenderAll(ds, k) ==
    IF k > Len(ds) THEN <<>> ELSE Render(k, ds[k]) \o RenderAll(ds, k + 1)

\* text without any question marker
Noise == <<"garbage text", "\n", "A", ")", " ", "with no markers", "\n">>

\* ------------------------------------------------------------------ state
VARIABLES
    output_text,   \* the value handed to parse_quiz_output: [type, val]
    blocks,        \* the blocks output_text.val was composed of
    parse_pc,      \* "compose" | "parsed"
    parsed,        \* what parse_quiz_output returned: [raised, value]
    quiz_storage,              \* quiz id -> Quiz
    quiz_results,              \* <<user id, quiz id>> -> QuizResult
    quiz_generation_history,   \* quiz id -> generation record
    assignment_history,        \* assignment id -> assignment record
    assignments,               \* assign_quiz.assignments
    student_assignments,       \* assign_quiz.student_assignments
    uuids,                     \* how many ids uuid.uuid4() has handed out
    clock,                     \* datetime.now(): one tick per request
    coroutines,                \* user id -> frame of a submit_quiz call that
                               \* reached its await: [submission, result, pc]
    response,                  \* the last request and its response
    frontend                   \* the quiz page of the Streamlit frontend:
                               \* its st.session_state and the last reply
                               \* QuizGenerator got: [session_state, reply]

parse_vars == <<output_text, blocks, parse_pc, parsed>>

router_vars ==
    <<quiz_storage, quiz_results, quiz_generation_history, assignment_history,
      assignments, student_assignments, uuids, clock, coroutines, response>>

vars == <<parse_vars, router_vars, frontend>>

\* an empty python dict
EmptyDict == <<>>

\* python's None for current_quiz, quiz_results and user
NoQuiz == [id |-> 0, questions |-> 0]

\* "Initialize session state": the quiz page on its first run, nobody logged in
FrontendInit ==
    frontend = [session_state |->
                   [quiz_state |-> "setup", current_quiz |-> NoQuiz,
                    quiz_answers |-> {}, current_question |-> 0,
                    quiz_results |-> "None", user |-> "None",
                    time_limit |-> "No Limit"],
                reply |-> [call |-> "none", ok |-> FALSE]]

\* the module state of routers/quiz.py after import
RouterInit ==
    /\ quiz_storage = EmptyDict
    /\ quiz_results = EmptyDict
    /\ quiz_generation_history = EmptyDict
    /\ assignment_history = EmptyDict
    /\ assignments = EmptyDict
    /\ student_assignments = EmptyDict
    /\ uuids = 0
    /\ clock = 0
    /\ coroutines = EmptyDict
    /\ response = [op |-> "none", status |-> 0]

\* no text is being parsed on its own
ParseIdle ==
    /\ output_text = [type |-> "str", val |-> <<>>]
    /\ blocks = <<>>
    /\ parse_pc = "compose"
    /\ parsed = [raised |-> FALSE, value |-> <<>>]

ParseInit ==
    /\ RouterInit
    /\ FrontendInit
    /\ output_text \in {[type |-> "str", val |-> <<>>], [type |-> "str", val |-> Noise]}
    /\ blocks = <<>>
    /\ parse_pc = "compose"
    /\ parsed = [raised |-> FALSE, value |-> <<>>]

\* the model's text grows by one block
ComposeBlock ==
    /\ parse_pc = "compose"
    /\ output_text.type = "str"
    /\ Len(blocks) < MaxBlocks
    /\ \E d \in BlockSet :
        /\ output_text' = [output_text EXCEPT !.val = @ \o Render(Len(blocks) + 1, d)]
        /\ blocks' = Append(blocks, d)
    /\ UNCHANGED <<parse_pc, parsed, router_vars, frontend>>

\* the response envelope carries a "text" that is not a string
ComposeNonStr ==
    /\ parse_pc = "compose"
    /\ output_text = [type |-> "str", val |-> <<>>]
    /\ output_text' = [type |-> "int", val |-> <<>>]
    /\ UNCHANGED <<blocks, parse_pc, parsed, router_vars, frontend>>

Parse ==
    /\ parse_pc = "compose"
    /\ parsed' = parse_quiz_output(output_text)
    /\ parse_pc' = "parsed"
    /\ UNCHANGED <<output_text, blocks, router_vars, frontend>>

ParseNext == ComposeBlock \/ ComposeNonStr \/ Parse

SpecParse == ParseInit /\ [][ParseNext]_vars

\* =========================================================== parser claims
\* the blocks re.split finds in the composed text (the first piece is the
\* text before the first marker)
TextBlocks == SplitTok(output_text.val, MarkerToks)

IsParsedStr == parse_pc = "parsed" /\ output_text.type = "str"

\* a block in the layout the specification asks for: a question text, the
\* four letters A, B, C, D once each, an answer line with one letter A-D
DistinctABCD(letters) ==
    Len(letters) = 4 /\ {letters[i] : i \in 1..Len(letters)} = {"A", "B", "C", "D"}

ValidAnswer(d) == d.has_answer /\ d.answer \in {<<"A">>, <<"B">>, <<"C">>, <<"D">>}

WellFormed(d) == d.q.question # <<>> /\ DistinctABCD(d.letters) /\ ValidAnswer(d)

\* what parsing the text of block d alone returns
Alone(d) == parse_quiz_output([type |-> "str", val |-> Render(1, d)]).value

RECURSIVE WellFormedAlone(_, _)
WellFormedAlone(ds, k) ==
    IF k > Len(ds) THEN <<>>
    ELSE (IF WellFormed(ds[k]) THEN Alone(ds[k]) ELSE <<>>) \o WellFormedAlone(ds, k + 1)

\* C1. Parser totality: whatever it is given (empty text, noise, blocks of any
\* kind, a value that is not a string), parse_quiz_output returns a non-empty
\* list of questions and no exception leaves it.
C1_ParserTotality ==
    parse_pc = "parsed" => ~parsed.raised /\ Len(parsed.value) >= 1

C1_Witness ==
    /\ parse_pc = "parsed"
    /\ output_text.type # "str"
    /\ ~parsed.raised
    /\ Len(parsed.value) = 1

\* C2. Option invariant: every question of every output has exactly 4 options
\* and a correct_answer among A, B, C, D.
C2_OptionInvariant ==
    parse_pc = "parsed" =>
        \A i \in 1..Len(parsed.value) :
            /\ Len(parsed.value[i].options) = 4
            /\ parsed.value[i].correct_answer \in {"A", "B", "C", "D"}

C2_Witness ==
    /\ IsParsedStr
    /\ Len(blocks) = 3
    /\ Len(parsed.value) = 2
    /\ \E i \in 1..Len(blocks) : ~blocks[i].has_answer

\* C3. Partial malformation isolation: the output is exactly the well-formed
\* blocks, in order, each as it parses alone.
C3_Isolation ==
    (IsParsedStr /\ \E i \in 1..Len(blocks) : WellFormed(blocks[i]))
        => parsed.value = WellFormedAlone(blocks, 1)

\* the text is the rendering of the questions of blocks in the canonical layout
IsRendering ==
    /\ output_text.type = "str"
    /\ \A i \in 1..Len(blocks) : blocks[i] = Canonical(blocks[i].q)
    /\ output_text.val = RenderAll(blocks, 1)

Questions(ds) == [i \in 1..Len(ds) |-> ds[i].q]

\* C4 (as claimed). Round trip: the rendering of any list of questions (each
\* with four options, a letter A-D and a non-empty explanation) in the
\* canonical layout parses back to exactly that list.
C4_RoundTripAnyList ==
    (/\ parse_pc = "parsed"
     /\ IsRendering
     /\ Len(blocks) >= 1
     /\ \A i \in 1..Len(blocks) : blocks[i].q.explanation # <<>>)
        => parsed.value = Questions(blocks)

\* a text that survives rendering and parsing: not empty, on one line, no
\* blank at either end, no question marker inside
Clean(s) ==
    /\ s # <<>>
    /\ \A i \in 1..Len(s) : s[i] # "\n" /\ s[i] \notin MarkerToks
    /\ ~IsSpace(s[1])
    /\ ~IsSpace(s[Len(s)])

CleanQuestion(q) ==
    /\ Clean(q.question)
    /\ Len(q.options) = 4
    /\ \A k \in 1..4 : Clean(q.options[k])
    /\ q.correct_answer \in {"A", "B", "C", "D"}
    /\ Clean(q.explanation)

\* C4 (amended). Round trip: the rendering of a list of at least one question,
\* each with clean question text, option texts and explanation, parses back
\* to exactly that list, in the same order.
C4_RoundTrip ==
    (/\ parse_pc = "parsed"
     /\ IsRendering
     /\ Len(blocks) >= 1
     /\ \A i \in 1..Len(blocks) : CleanQuestion(blocks[i].q))
        => parsed.value = Questions(blocks)

C4_Witness ==
    /\ parse_pc = "parsed"
    /\ IsRendering
    /\ Len(blocks) = 3
    /\ blocks[1].q = Q1 /\ blocks[2].q = Q0 /\ blocks[3].q = Q1
    /\ parsed.value = <<Q1, Q0, Q1>>

\* C5. Fallback determinism: a text without a marker, or whose blocks are all
\* rejected, yields exactly one question, with correct letter A and four
\* placeholder options (texts that do not come from the input).
C5_FallbackDeterminism ==
    (IsParsedStr /\ \A i \in 2..Len(TextBlocks) : ParseBlock(TextBlocks[i]) = <<>>)
        => /\ Len(parsed.value) = 1
           /\ parsed.value[1].correct_answer = "A"
           /\ Len(parsed.value[1].options) = 4
           /\ \A k \in 1..Len(parsed.value[1].options) :
                /\ parsed.value[1].options[k] # <<>>
                /\ \A j \in 1..Len(output_text.val) :
                     <<output_text.val[j]>> # parsed.value[1].options[k]

C5_Witness ==
    /\ IsParsedStr
    /\ Len(blocks) = 2
    /\ \A i \in 2..Len(TextBlocks) : ParseBlock(TextBlocks[i]) = <<>>
    /\ Len(parsed.value) = 1
    /\ parsed.value[1].correct_answer = "A"

\* C6. A block is rejected unless its option lines carry the four letters
\* A, B, C, D once each.
C6_DistinctLettersOrRejected ==
    IsParsedStr =>
        \A i \in 1..Len(blocks) :
            ~DistinctABCD(blocks[i].letters) => ParseBlock(TextBlocks[i + 1]) = <<>>

\* C7. A block is rejected when it has no answer line or when its answer line
\* does not carry the keyword followed by a single letter A-D.
C7_ValidAnswerOrRejected ==
    IsParsedStr =>
        \A i \in 1..Len(blocks) :
            ~ValidAnswer(blocks[i]) => ParseBlock(TextBlocks[i + 1]) = <<>>

\* ================================================================ router
\* backend/routers/quiz.py.  A python dict is a function on its keys; uuid4
\* ids are 1, 2, ... in the order they are handed out, and 0 is an id that
\* was never handed out.

\* (mutant) the dict is replaced by the new entry
Put_Only(d, key, value) == key :> value

\* dict[key] = value
Put(d, key, value) == (key :> value) @@ d

\* str(i) for a question index
StrOf(i) == <<"0", "1", "2", "3", "4", "5", "6", "7">>[i + 1]

\* answers.get(str(i)): found is FALSE for python's None
GetStrKey(answers, i) ==
    IF StrOf(i) \in DOMAIN answers
    THEN [found |-> TRUE, val |-> answers[StrOf(i)]]
    ELSE [found |-> FALSE, val |-> <<>>]

\* the dict key i, an int: it is not the key str(i)
IntKey(i) == <<"int 0", "int 1", "int 2", "int 3", "int 4", "int 5", "int 6", "int 7">>[i + 1]

\* (mutant) the int key is never looked up
GetIntKey_Default(answers, i, default) == default

\* answers.get(i, default)
GetIntKey(answers, i, default) ==
    IF IntKey(i) \in DOMAIN answers THEN answers[IntKey(i)] ELSE default

\* user_answer = submission.answers.get(str(i)) or submission.answers.get(i, "")
UserAnswer(answers, i) ==
    LET a == GetStrKey(answers, i)
    IN  IF a.found /\ a.val # <<>> THEN a.val ELSE GetIntKey(answers, i, <<>>)

\* ord(correct_answer_letter) - ord('A')
OptionIndex(letter) ==
    CASE letter = "A" -> 0 [] letter = "B" -> 1 [] letter = "C" -> 2 [] letter = "D" -> 3

\* (mutant) the letter names no option
CorrectAnswerText_Blank(question) == <<>>

\* correct_answer_text: the option the letter names, "" when it names none
CorrectAnswerText(question) ==
    IF question.correct_answer \in {"A", "B", "C", "D"}
    THEN LET option_index == OptionIndex(question.correct_answer)
         IN  IF 0 <= option_index /\ option_index < Len(question.options)
             THEN question.options[option_index + 1]
             ELSE <<>>
    ELSE <<>>

\* (mutant) the texts are compared as they come
IsCorrect_NoStrip(question, user_answer) ==
    user_answer = CorrectAnswerText(question)

\* is_correct = user_answer.strip() == correct_answer_text.strip()
IsCorrect(question, user_answer) ==
    Strip(user_answer) = Strip(CorrectAnswerText(question))

\* the feedback line of question i (0-based): the parts of the f-string
FeedbackLine(i, question, user_answer) ==
    IF IsCorrect(question, user_answer)
    THEN [number |-> i + 1, verdict |-> "Correct", user_answer |-> <<>>,
          correct_letter |-> "", correct_text |-> <<>>,
          explanation |-> question.explanation]
    ELSE [number |-> i + 1, verdict |-> "Incorrect", user_answer |-> user_answer,
          correct_letter |-> question.correct_answer,
          correct_text |-> CorrectAnswerText(question),
          explanation |-> question.explanation]

\* the loop "for i, question in enumerate(quiz.questions)"
GradeQuiz(quiz, answers) ==
    LET n == Len(quiz.questions)
    IN  [correct_answers |->
             Cardinality({i \in 0..(n - 1) :
                 IsCorrect(quiz.questions[i + 1], UserAnswer(answers, i))}),
         feedback |->
             [k \in 1..n |->
                 FeedbackLine(k - 1, quiz.questions[k], UserAnswer(answers, k - 1))]]

\* (mutant) the ratio, not the percentage
Score_Ratio(correct_answers, total) == [num |-> correct_answers, den |-> total]

\* score = (correct_answers / len(quiz.questions)) * 100, as the fraction
\* num / den: the exact value, of which the float is the rounding
Score(correct_answers, total) == [num |-> correct_answers * 100, den |-> total]

\* f"Quiz on {request.topic}"
Title(topic) == <<"Quiz on ", topic>>

\* (mutant) the question goes out as it is stored
FrontendQuestion_AsStored(question) == question

\* Quiz(**quiz_for_frontend): the two fields were popped, and QuizQuestion
\* fills in its defaults
FrontendQuestion(question) ==
    [question |-> question.question,
     options |-> question.options,
     correct_answer |-> "A",
     explanation |-> <<"No explanation provided.">>]

QuizForFrontend(quiz) ==
    [quiz EXCEPT !.questions = [k \in 1..Len(@) |-> FrontendQuestion(@[k])]]

\* what the model returns: up to two blocks, each one of the two example
\* questions, the first one short of an option or with the letter A twice;
\* or three blocks, the middle one possibly short of an option
GenBlocks ==
    {Canonical(Q0), Canonical(Q1), Defective(Q0, "missing_option"),
     Defective(Q0, "dup_letter")}

GenTriples ==
    {<<Canonical(Q0), c, Canonical(Q1)>> :
        c \in {Canonical(Q1), Defective(Q0, "missing_option")}}

GenOutputs ==
    {<<>>} \cup {<<a>> : a \in GenBlocks} \cup {<<a, b>> : a, b \in GenBlocks}
    \cup GenTriples

\* what gemini_service.generate_quiz does: it raises (ok = FALSE), or returns
\* the "text" of the response envelope, composed of blocks
Upstreams ==
    {[ok |-> FALSE, text |-> [type |-> "str", val |-> <<>>], blocks |-> <<>>]}
    \cup {[ok |-> TRUE, text |-> [type |-> "str", val |-> RenderAll(ds, 1)], blocks |-> ds]
             : ds \in GenOutputs}
    \cup {[ok |-> TRUE, text |-> [type |-> "int", val |-> <<>>], blocks |-> <<>>]}

\* parse_quiz_output on each text the model may return, tabulated once
\* (@@ with the empty function turns the rule into its table)
ParsedUpstream ==
    [text \in {u.text : u \in Upstreams} |-> parse_quiz_output(text)] @@ EmptyDict

\* (mutant) the record counts one question too many
GenerationRecord_OffByOne(quiz, now) ==
    [quiz_id |-> quiz.id, title |-> quiz.title,
     topic |-> quiz.topic, difficulty |-> quiz.difficulty,
     num_questions |-> Len(quiz.questions) + 1,
     created_at |-> now, created_by |-> "educator_id",
     status |-> "generated"]

\* "Log quiz generation for history tracking"
GenerationRecord(quiz, now) ==
    [quiz_id |-> quiz.id, title |-> quiz.title,
     topic |-> quiz.topic, difficulty |-> quiz.difficulty,
     num_questions |-> Len(quiz.questions),
     created_at |-> now, created_by |-> "educator_id",
     status |-> "generated"]

\* (mutant) a failed model call goes unnoticed
Raises_Never(upstream) == FALSE

\* response.raise_for_status() or the indexing of response.json() raises
Raises(upstream) == ~upstream.ok

\* POST /quiz/generate.  upstream: what gemini_service.generate_quiz does
\* (ok = FALSE: it raises; otherwise the text of the response envelope).
generate_quiz(request, upstream) ==
    /\ clock' = clock + 1
    /\ LET parsed_questions ==
               IF ~Raises(upstream) THEN ParsedUpstream[upstream.text].value ELSE <<>>
           quiz_id == uuids + 1
           quiz == [id |-> quiz_id,
                    title |-> Title(request.topic),
                    topic |-> request.topic,
                    difficulty |-> request.difficulty,
                    questions |-> parsed_questions,
                    created_at |-> clock + 1]
       IN  IF Raises(upstream) \/ parsed_questions = <<>>
           THEN /\ response' = [op |-> "generate", request |-> request, status |-> 500,
                                detail |-> "Failed to generate quiz"]
                /\ UNCHANGED <<quiz_storage, quiz_generation_history, uuids>>
           ELSE /\ quiz_storage' = Put(quiz_storage, quiz_id, quiz)
                /\ quiz_generation_history' =
                       Put(quiz_generation_history, quiz_id,
                           GenerationRecord(quiz, clock + 1))
                /\ uuids' = uuids + 1
                /\ response' = [op |-> "generate", request |-> request, status |-> 200,
                                body |-> QuizForFrontend(quiz)]
    /\ IF ~Raises(upstream)
       THEN /\ output_text' = upstream.text
            /\ blocks' = upstream.blocks
            /\ parsed' = ParsedUpstream[upstream.text]
            /\ parse_pc' = "parsed"
       ELSE UNCHANGED parse_vars
    /\ UNCHANGED <<quiz_results, assignment_history, assignments, student_assignments,
                   coroutines, frontend>>

\* "Mark assignment as completed": every assignment of this quiz to this user
MarkCompleted(sa, user_id, quiz_id, now, score) ==
    [s \in DOMAIN sa |->
        IF s # user_id THEN sa[s]
        ELSE [k \in 1..Len(sa[s]) |->
                 IF sa[s][k].quiz_id = quiz_id
                 THEN [completed |-> TRUE, completed_at |-> now, score |-> score] @@ sa[s][k]
                 ELSE sa[s][k]]]

\* (mutant) every submission gets a key of its own
ResultId_EachTime(user_id, quiz_id) == <<user_id, quiz_id, clock>>

\* (mutant) results keyed by the quiz alone
ResultId_QuizOnly(user_id, quiz_id) == <<"", quiz_id>>

\* result_id = f"{submission.user_id}_{submission.quiz_id}"
ResultId(user_id, quiz_id) == <<user_id, quiz_id>>

\* the QuizResult built for a submission to a stored quiz with questions
SubmitResult(submission) ==
    LET quiz == quiz_storage[submission.quiz_id]
        graded == GradeQuiz(quiz, submission.answers)
    IN  [quiz_id |-> submission.quiz_id,
         user_id |-> submission.user_id,
         score |-> Score(graded.correct_answers, Len(quiz.questions)),
         total_questions |-> Len(quiz.questions),
         correct_answers |-> graded.correct_answers,
         feedback |-> graded.feedback,
         submitted_at |-> clock + 1]

\* what submit_quiz answers: the result, or the HTTPException its outer
\* "except Exception" makes of a missing quiz or of the division by zero
SubmitResponse(submission) ==
    IF submission.quiz_id \notin DOMAIN quiz_storage
    THEN [op |-> "submit", request |-> submission, status |-> 500,
          detail |-> "Failed to submit quiz: 404: Quiz not found"]
    ELSE IF Len(quiz_storage[submission.quiz_id].questions) = 0
         THEN [op |-> "submit", request |-> submission, status |-> 500,
               detail |-> "Failed to submit quiz: division by zero"]
         ELSE [op |-> "submit", request |-> submission, status |-> 200,
               body |-> SubmitResult(submission)]

\* submit_quiz up to its await: grade, store the result, mark the assignment
SubmitStore(submission) ==
    /\ clock' = clock + 1
    /\ IF SubmitResponse(submission).status = 500
       THEN UNCHANGED <<quiz_results, student_assignments>>
       ELSE LET result == SubmitResult(submission)
            IN  /\ quiz_results' =
                       Put(quiz_results,
                           ResultId(submission.user_id, submission.quiz_id), result)
                /\ student_assignments' =
                       MarkCompleted(student_assignments, submission.user_id,
                                     submission.quiz_id, clock + 1, result.score)
    /\ UNCHANGED <<quiz_storage, quiz_generation_history, assignment_history,
                   assignments, uuids>>
    /\ UNCHANGED parse_vars

\* POST /quiz/submit, run without another request in between.  The awaited
\* pinecone_service.store_quiz_result changes nothing here, and its failure
\* is caught.
submit_quiz(submission) ==
    /\ SubmitStore(submission)
    /\ response' = SubmitResponse(submission)
    /\ UNCHANGED <<coroutines, frontend>>

\* POST /quiz/submit handed back to the event loop at
\* "await pinecone_service.store_quiz_result(...)": the frame keeps result
submit_quiz_await(submission) ==
    /\ submission.user_id \notin DOMAIN coroutines
    /\ SubmitResponse(submission).status = 200
    /\ SubmitStore(submission)
    /\ coroutines' = Put(coroutines, submission.user_id,
                         [submission |-> submission,
                          result |-> SubmitResult(submission),
                          pc |-> "await"])
    /\ UNCHANGED <<response, frontend>>

\* the awaited call is over: "return result"
submit_quiz_return(user_id) ==
    /\ user_id \in DOMAIN coroutines
    /\ coroutines[user_id].pc = "await"
    /\ response' = [op |-> "submit", request |-> coroutines[user_id].submission,
                    status |-> 200, body |-> coroutines[user_id].result]
    /\ coroutines' = Put(coroutines, user_id,
                         [pc |-> "done"] @@ coroutines[user_id])
    /\ UNCHANGED <<quiz_storage, quiz_results, quiz_generation_history,
                   assignment_history, assignments, student_assignments,
                   uuids, clock, frontend>>
    /\ UNCHANGED parse_vars

\* (mutant) a second assignment puts the record back to "generated"
AssignedRecord_Toggled(quiz_info, now, student_count) ==
    [status |-> IF quiz_info.status = "assigned" THEN "generated" ELSE "assigned",
     assigned_at |-> now, student_count |-> student_count] @@ quiz_info

\* "Update quiz generation history status": the three fields assign_quiz sets
AssignedRecord(quiz_info, now, student_count) ==
    [status |-> "assigned", assigned_at |-> now, student_count |-> student_count]
    @@ quiz_info

\* "for student_id in student_ids": one record appended per listed student
RECURSIVE StoreForEachStudent(_, _, _, _)
StoreForEachStudent(sa, student_ids, k, record) ==
    IF k > Len(student_ids) THEN sa
    ELSE LET student_id == student_ids[k]
             old == IF student_id \in DOMAIN sa THEN sa[student_id] ELSE <<>>
         IN  StoreForEachStudent(Put(sa, student_id, Append(old, record)),
                                 student_ids, k + 1, record)

\* POST /quiz/assign
assign_quiz(assignment) ==
    /\ clock' = clock + 1
    /\ IF assignment.quiz_id = 0 \/ assignment.quiz_id \notin DOMAIN quiz_storage
       THEN /\ response' = [op |-> "assign", request |-> assignment, status |-> 500,
                            detail |-> "Failed to assign quiz: 404: Quiz not found"]
            /\ UNCHANGED <<assignments, assignment_history, quiz_generation_history,
                           student_assignments, uuids>>
       ELSE LET quiz_id == assignment.quiz_id
                quiz == quiz_storage[quiz_id]
                assignment_id == uuids + 1
                now == clock + 1
            IN  /\ uuids' = uuids + 1
                /\ assignments' =
                       Put(assignments, assignment_id,
                           [quiz_id |-> quiz_id, student_ids |-> assignment.student_ids,
                            notification_message |-> assignment.notification_message,
                            assigned_at |-> now])
                /\ assignment_history' =
                       Put(assignment_history, assignment_id,
                           [quiz_id |-> quiz_id, student_ids |-> assignment.student_ids,
                            notification_message |-> assignment.notification_message,
                            assigned_at |-> now])
                /\ quiz_generation_history' =
                       IF quiz_id \in DOMAIN quiz_generation_history
                       THEN Put(quiz_generation_history, quiz_id,
                                AssignedRecord(quiz_generation_history[quiz_id], now,
                                               Len(assignment.student_ids)))
                       ELSE quiz_generation_history
                /\ student_assignments' =
                       StoreForEachStudent(student_assignments, assignment.student_ids, 1,
                           [assignment_id |-> assignment_id, quiz_id |-> quiz_id,
                            quiz_title |-> quiz.title, quiz_topic |-> quiz.topic,
                            notification_message |-> assignment.notification_message,
                            assigned_at |-> now, completed |-> FALSE])
                /\ response' = [op |-> "assign", request |-> assignment, status |-> 200,
                                body |-> [student_count |-> Len(assignment.student_ids),
                                          assignment_id |-> assignment_id]]
    /\ UNCHANGED <<quiz_storage, quiz_results, coroutines, frontend>>
    /\ UNCHANGED parse_vars

\* ---------------------------------------------------------- request inputs
Users == {"s1", "s2"}

NumQuestions == {1, 2, 3}

Requests ==
    {[topic |-> "geography", difficulty |-> 3, num_questions |-> n] : n \in NumQuestions}

\* str.swapcase on the first letter of the texts learners answer with
SwapCase(token) ==
    CASE token = "Paris" -> "paris"
      [] token = "Mercury" -> "mercury"
      [] token = "Concept A" -> "concept A"
      [] token = "Option A" -> "option A"
      [] OTHER -> token

\* another spelling of a text, differing only in case
OtherCase(s) == [k \in 1..Len(s) |-> SwapCase(s[k])]

\* what a learner may send for a question: the correct option text, the same
\* padded with blanks, the same in another case behind a blank, another
\* option's text
AnswerKinds == {"missing", "exact", "padded", "other_case", "other_option"}

AnswerOf(question, kind) ==
    LET text == CorrectAnswerText(question)
        j == OptionIndex(question.correct_answer)
    IN  CASE kind = "exact" -> text
          [] kind = "padded" -> <<" ", " ">> \o text \o <<" ", " ">>
          [] kind = "other_case" -> <<" ">> \o OtherCase(text)
          [] kind = "other_option" -> question.options[((j + 1) % 4) + 1]

\* the answers dicts for a quiz: per question an answer of one kind, or no key
AnswerSheets(quiz_id) ==
    IF quiz_id \notin DOMAIN quiz_storage THEN {EmptyDict}
    ELSE LET questions == quiz_storage[quiz_id].questions
         IN  {[key \in {StrOf(k - 1) : k \in {x \in 1..Len(questions) : kinds[x] # "missing"}} |->
                  LET k == CHOOSE x \in 1..Len(questions) : StrOf(x - 1) = key
                  IN  AnswerOf(questions[k], kinds[k])]
              : kinds \in [1..Len(questions) -> AnswerKinds]}

StudentLists == {<<>>, <<"s1">>, <<"s1", "s2">>}

\* the model stops after MaxRequests requests
GenerateQuiz ==
    /\ clock < MaxRequests
    /\ \E request \in Requests, upstream \in Upstreams : generate_quiz(request, upstream)

SubmitQuiz ==
    /\ clock < MaxRequests
    /\ \E quiz_id \in DOMAIN quiz_storage \cup {0}, user_id \in Users :
        \E answers \in AnswerSheets(quiz_id) :
            submit_quiz([quiz_id |-> quiz_id, user_id |-> user_id, answers |-> answers])

AssignQuiz ==
    /\ clock < MaxRequests
    /\ \E quiz_id \in DOMAIN quiz_storage \cup {0}, student_ids \in StudentLists :
        assign_quiz([quiz_id |-> quiz_id, student_ids |-> student_ids,
                     notification_message |-> "Please take this quiz"])

Init == ParseIdle /\ RouterInit /\ FrontendInit

Next == GenerateQuiz \/ SubmitQuiz \/ AssignQuiz

Spec == Init /\ [][Next]_vars

\* =========================================================== router claims
\* the last request was a generate that created a quiz / the quiz it created
Created == response.op = "generate" /\ response.status = 200

CreatedQuiz == quiz_storage[response.body.id]

\* a block the parser keeps: a question line, four option lines with letters
\* among A-D (distinct or not), an answer line whose text starts with A-D
Accepted(d) ==
    /\ d.q.question # <<>>
    /\ Len(d.letters) = 4
    /\ \A i \in 1..Len(d.letters) : d.letters[i] \in {"A", "B", "C", "D"}
    /\ d.has_answer
    /\ d.answer # <<>>
    /\ d.answer[1] \in {"A", "B", "C", "D"}

AcceptedBlocks == {i \in 1..Len(blocks) : Accepted(blocks[i])}

Submitted == response.op = "submit" /\ response.status = 200

SubmittedQuiz == quiz_storage[response.request.quiz_id]

\* the learner's answer for index i: the entry of the mapping, "" without one
HasAnswer(i) == StrOf(i) \in DOMAIN response.request.answers

LearnerAnswer(i) == IF HasAnswer(i) THEN response.request.answers[StrOf(i)] ELSE <<>>

\* options[ord(letter) - ord('A')] of question i
DesignatedOption(i) ==
    LET question == SubmittedQuiz.questions[i + 1]
    IN  question.options[OptionIndex(question.correct_answer) + 1]

TrimmedEqual(i) == Strip(LearnerAnswer(i)) = Strip(DesignatedOption(i))

CountedCorrect(i) == response.body.feedback[i + 1].verdict = "Correct"

\* C9. Grading correctness: question i is counted correct if and only if the
\* learner's answer for i, trimmed, equals (case-sensitively) the trimmed text
\* of the option the correct letter designates; correct_answers is the number
\* of such questions.
C9_GradingCorrectness ==
    Submitted =>
        LET indices == 0..(Len(SubmittedQuiz.questions) - 1)
        IN  /\ \A i \in indices : CountedCorrect(i) <=> TrimmedEqual(i)
            /\ response.body.correct_answers =
                   Cardinality({i \in indices : TrimmedEqual(i)})

\* one answer padded with blanks and counted correct, another differing from
\* the correct text only in case and counted incorrect
C9_Witness ==
    /\ Submitted
    /\ \E i, j \in 0..(Len(SubmittedQuiz.questions) - 1) :
        /\ HasAnswer(i) /\ HasAnswer(j)
        /\ LearnerAnswer(i) # Strip(LearnerAnswer(i))
        /\ CountedCorrect(i)
        /\ Strip(LearnerAnswer(j)) # DesignatedOption(j)
        /\ Strip(LearnerAnswer(j)) = OtherCase(DesignatedOption(j))
        /\ ~CountedCorrect(j)

\* C10. For a stored quiz and any answers mapping, the submission completes
\* with a result, and a question whose index has no entry in the mapping is
\* graded incorrect, never correct.
C10_MissingIsIncorrect ==
    (response.op = "submit" /\ response.request.quiz_id \in DOMAIN quiz_storage) =>
        /\ response.status = 200
        /\ \A i \in 0..(Len(SubmittedQuiz.questions) - 1) :
               ~HasAnswer(i) => ~CountedCorrect(i)
        /\ response.body.correct_answers <=
               Cardinality({i \in 0..(Len(SubmittedQuiz.questions) - 1) : HasAnswer(i)})

\* a graded submission with an answer for one question and none for another
C10_Witness ==
    /\ Submitted
    /\ \E i, j \in 0..(Len(SubmittedQuiz.questions) - 1) :
        /\ ~HasAnswer(i) /\ ~CountedCorrect(i)
        /\ HasAnswer(j) /\ CountedCorrect(j)
    /\ response.body.correct_answers = 1

\* ================================================= grading, as a function
\* The grading loop of submit_quiz applied to a stored Quiz of any shape the
\* model type admits (questions: List[QuizQuestion], the empty list
\* included) and to answers keyed by str or by int.

\* The largest number of submissions graded in a run of SpecGrade.
MaxGradings == 1

\* Quiz(id, title, topic, difficulty, questions, created_at)
QuizOf(questions) ==
    [id |-> 1, title |-> Title("geography"), topic |-> "geography", difficulty |-> 3,
     questions |-> questions, created_at |-> 0]

GradeQuizzes ==
    {QuizOf(<<>>), QuizOf(NoQuestionsFallback), QuizOf(Alone(Canonical(Q0))),
     QuizOf(Alone(Canonical(Q0)) \o Alone(Canonical(Q1)))}

\* the same index as a key of the other form: "0" for 0 and 0 for "0"
OtherForm(key) ==
    IF \E i \in 0..7 : key = StrOf(i)
    THEN IntKey(CHOOSE i \in 0..7 : key = StrOf(i))
    ELSE StrOf(CHOOSE i \in 0..7 : key = IntKey(i))

\* the same answers under keys of the other form
Rekey(answers) == [key \in {OtherForm(k) : k \in DOMAIN answers} |-> answers[OtherForm(key)]]

GradeSheets(quiz_id) ==
    AnswerSheets(quiz_id) \cup {Rekey(answers) : answers \in AnswerSheets(quiz_id)}

GradeInit ==
    /\ ParseIdle
    /\ FrontendInit
    /\ quiz_storage \in {Put(EmptyDict, quiz.id, quiz) : quiz \in GradeQuizzes}
    /\ quiz_results = EmptyDict
    /\ quiz_generation_history = EmptyDict
    /\ assignment_history = EmptyDict
    /\ assignments = EmptyDict
    /\ student_assignments = EmptyDict
    /\ uuids = 1
    /\ clock = 0
    /\ coroutines = EmptyDict
    /\ response = [op |-> "none", status |-> 0]

GradeSubmit ==
    /\ clock < MaxGradings
    /\ \E quiz_id \in DOMAIN quiz_storage, user_id \in Users :
        \E answers \in GradeSheets(quiz_id) :
            submit_quiz([quiz_id |-> quiz_id, user_id |-> user_id, answers |-> answers])

SpecGrade == GradeInit /\ [][GradeSubmit]_vars

\* C11. Key-form tolerance: for the same quiz, the answers keyed by str(i)
\* and the same answers keyed by the int i are graded to the same correct
\* count, score and feedback.
C11_KeyFormTolerance ==
    Submitted =>
        LET other == GradeQuiz(SubmittedQuiz, Rekey(response.request.answers))
        IN  /\ response.body.correct_answers = other.correct_answers
            /\ response.body.feedback = other.feedback
            /\ response.body.score =
                   Score(other.correct_answers, Len(SubmittedQuiz.questions))

\* answers keyed by int, one of them counted correct
C11_Witness ==
    /\ Submitted
    /\ IntKey(0) \in DOMAIN response.request.answers
    /\ response.body.feedback[1].verdict = "Correct"
    /\ response.body.correct_answers >= 1

\* C12. Score computation: every result of submit_quiz has total_questions =
\* the number of questions of the quiz, 0 <= correct_answers <=
\* total_questions and score = 100 * correct_answers / total_questions (in
\* exact arithmetic), which lies in [0, 100].
C12_ScoreComputation ==
    Submitted =>
        LET result == response.body
        IN  /\ result.total_questions = Len(SubmittedQuiz.questions)
            /\ 0 <= result.correct_answers
            /\ result.correct_answers <= result.total_questions
            /\ result.score.den > 0
            /\ result.score.num * result.total_questions
                   = 100 * result.correct_answers * result.score.den
            /\ 0 <= result.score.num
            /\ result.score.num <= 100 * result.score.den

\* two of three questions answered correctly
C12_Witness ==
    /\ Submitted
    /\ response.body.total_questions = 3
    /\ response.body.correct_answers = 2
    /\ response.body.score = [num |-> 200, den |-> 3]

RECURSIVE SortedNewestFirst(_, _)
SortedNewestFirst(items, key) ==
    IF items = {} THEN <<>>
    ELSE LET newest == CHOOSE x \in items : \A y \in items : y[key] <= x[key]
         IN  <<newest>> \o SortedNewestFirst(items \ {newest}, key)

\* the keys of a dict whose keys are ids, in insertion order (ids are handed
\* out in increasing order)
RECURSIVE KeysInOrder(_)
KeysInOrder(ids) ==
    IF ids = {} THEN <<>>
    ELSE LET first == CHOOSE x \in ids : \A y \in ids : x <= y
         IN  <<first>> \o KeysInOrder(ids \ {first})

\* question.pop("correct_answer", None); question.pop("explanation", None)
PoppedQuestion(question) ==
    [question |-> question.question, options |-> question.options]

\* quiz.dict() with the two fields popped from every question
QuizCopy(quiz) ==
    [quiz EXCEPT !.questions = [k \in 1..Len(@) |-> PoppedQuestion(@[k])]]

\* the uuid text of an id in a path, and the id of a path segment (0: none)
IdText(id) == <<"id0", "id1", "id2", "id3", "id4", "id5", "id6", "id7">>[id + 1]

QuizIdOf(segment) ==
    IF \E id \in 0..7 : segment = IdText(id)
    THEN CHOOSE id \in 0..7 : segment = IdText(id)
    ELSE 0

\* what pinecone_service.get_user_quiz_history may return: nothing (no match,
\* or the query failed), or a record the index kept from an earlier run
PineconeHistories ==
    {<<>>,
     <<[topic |-> "geography", difficulty |-> 3, score |-> [num |-> 100, den |-> 1],
        total_questions |-> 1, correct_answers |-> 1, submitted_at |-> -1]>>}

\* the history_item of a result
HistoryItem(result) ==
    [quiz_id |-> result.quiz_id,
     topic |-> quiz_storage[result.quiz_id].topic,
     difficulty |-> quiz_storage[result.quiz_id].difficulty,
     score |-> result.score,
     total_questions |-> result.total_questions,
     correct_answers |-> result.correct_answers,
     submitted_at |-> result.submitted_at,
     feedback |-> result.feedback]

\* user_history before the fallback: the items of the user's results whose
\* quiz is stored, newest first
LocalHistory(results, user_id) ==
    SortedNewestFirst(
        {HistoryItem(results[id]) :
            id \in {x \in DOMAIN results :
                       /\ results[x].user_id = user_id
                       /\ results[x].quiz_id \in DOMAIN quiz_storage}},
        "submitted_at")

\* GET /quiz/history/{user_id}
get_quiz_history(path, user_id) ==
    /\ IF LocalHistory(quiz_results, user_id) # <<>>
       THEN response' =
                [op |-> "get_quiz_history", request |-> path, status |-> 200,
                 body |-> [history |-> LocalHistory(quiz_results, user_id)]]
       ELSE \E pinecone_history \in PineconeHistories :
                response' =
                    [op |-> "get_quiz_history", request |-> path, status |-> 200,
                     body |-> [history |-> pinecone_history]]
    /\ UNCHANGED <<quiz_storage, quiz_results, quiz_generation_history,
                   assignment_history, assignments, student_assignments, uuids, clock,
                   coroutines, frontend>>
    /\ UNCHANGED parse_vars

\* GET /quiz/assignments/{student_id}
get_student_assignments(path, student_id) ==
    /\ response' =
           [op |-> "get_student_assignments", request |-> path, status |-> 200,
            body |-> [assignments |->
                IF student_id \in DOMAIN student_assignments
                THEN student_assignments[student_id] ELSE <<>>]]
    /\ UNCHANGED <<quiz_storage, quiz_results, quiz_generation_history,
                   assignment_history, assignments, student_assignments, uuids, clock,
                   coroutines, frontend>>
    /\ UNCHANGED parse_vars

\* GET /quiz/list
list_quizzes(path) ==
    /\ response' =
           [op |-> "list_quizzes", request |-> path, status |-> 200,
            body |-> [quizzes |->
                LET ids == KeysInOrder(DOMAIN quiz_storage)
                IN  [k \in 1..Len(ids) |-> QuizCopy(quiz_storage[ids[k]])]]]
    /\ UNCHANGED <<quiz_storage, quiz_results, quiz_generation_history,
                   assignment_history, assignments, student_assignments, uuids, clock,
                   coroutines, frontend>>
    /\ UNCHANGED parse_vars

\* GET /quiz/{quiz_id}
get_quiz_by_id(path, quiz_id) ==
    /\ response' =
           IF quiz_id \notin DOMAIN quiz_storage
           THEN [op |-> "get_quiz_by_id", request |-> path, status |-> 500,
                 detail |-> "Failed to retrieve quiz: 404: Quiz not found"]
           ELSE [op |-> "get_quiz_by_id", request |-> path, status |-> 200,
                 body |-> QuizCopy(quiz_storage[quiz_id])]
    /\ UNCHANGED <<quiz_storage, quiz_results, quiz_generation_history,
                   assignment_history, assignments, student_assignments, uuids, clock,
                   coroutines, frontend>>
    /\ UNCHANGED parse_vars

\* total_score += result.score over a set of results, as a fraction
RECURSIVE SumScores(_)
SumScores(results) ==
    IF results = {} THEN [num |-> 0, den |-> 1]
    ELSE LET r == CHOOSE x \in results : TRUE
             rest == SumScores(results \ {r})
         IN  [num |-> r.score.num * rest.den + rest.num * r.score.den,
              den |-> r.score.den * rest.den]

\* the history_item of get_educator_quiz_history for one generated quiz
EducatorItem(quiz_id) ==
    LET quiz_info == quiz_generation_history[quiz_id]
        matching == {a \in DOMAIN assignment_history :
                        assignment_history[a].quiz_id = quiz_id}
        total_assigned ==
            IF quiz_info.status = "assigned" THEN quiz_info.student_count ELSE 0
        completed ==
            IF total_assigned > 0
            THEN {quiz_results[x] : x \in {y \in DOMAIN quiz_results :
                                              quiz_results[y].quiz_id = quiz_id}}
            ELSE {}
        completed_count == Cardinality(completed)
        total_score == SumScores(completed)
    IN  [quiz_id |-> quiz_id,
         title |-> quiz_info.title,
         topic |-> quiz_info.topic,
         difficulty |-> quiz_info.difficulty,
         num_questions |-> quiz_info.num_questions,
         created_at |-> quiz_info.created_at,
         status |-> quiz_info.status,
         assigned_at |-> IF "assigned_at" \in DOMAIN quiz_info
                         THEN quiz_info.assigned_at ELSE 0,
         total_assigned |-> total_assigned,
         completed_count |-> completed_count,
         completion_rate |->
             IF total_assigned > 0
             THEN [num |-> completed_count * 100, den |-> total_assigned]
             ELSE [num |-> 0, den |-> 1],
         average_score |->
             IF completed_count > 0
             THEN [num |-> total_score.num, den |-> total_score.den * completed_count]
             ELSE [num |-> 0, den |-> 1],
         assignment_message |->
             IF matching # {}
             THEN assignment_history[KeysInOrder(matching)[1]].notification_message
             ELSE ""]

\* the function get_educator_quiz_history, declared for GET /quiz/history/educator
get_educator_quiz_history(path) ==
    /\ response' =
           [op |-> "get_educator_quiz_history", request |-> path, status |-> 200,
            body |-> [history |->
                SortedNewestFirst(
                    {EducatorItem(quiz_id) :
                        quiz_id \in DOMAIN quiz_generation_history \cap DOMAIN quiz_storage},
                    "created_at")]]
    /\ UNCHANGED <<quiz_storage, quiz_results, quiz_generation_history,
                   assignment_history, assignments, student_assignments, uuids, clock,
                   coroutines, frontend>>
    /\ UNCHANGED parse_vars

\* The GET routes in the order of their decorators; "{}" is a path parameter.
\* A request goes to the first route whose pattern matches its path.
Routes ==
    <<[handler |-> "get_quiz_history", pattern |-> <<"history", "{}">>],
      [handler |-> "get_students_analytics", pattern |-> <<"analytics", "students">>],
      [handler |-> "get_student_assignments", pattern |-> <<"assignments", "{}">>],
      [handler |-> "list_quizzes", pattern |-> <<"list">>],
      [handler |-> "list_assignments", pattern |-> <<"assignments">>],
      [handler |-> "get_quiz_by_id", pattern |-> <<"{}">>],
      [handler |-> "get_educator_quiz_history", pattern |-> <<"history", "educator">>]>>

Matches(pattern, path) ==
    /\ Len(pattern) = Len(path)
    /\ \A k \in 1..Len(pattern) : pattern[k] = "{}" \/ pattern[k] = path[k]

\* (mutant) the literal route /history/educator is matched before
\* /history/{user_id}
RouteOf_LiteralFirst(path) ==
    IF path = <<"history", "educator">> THEN "get_educator_quiz_history"
    ELSE Routes[CHOOSE k \in 1..Len(Routes) :
                    /\ Matches(Routes[k].pattern, path)
                    /\ \A j \in 1..(k - 1) : ~Matches(Routes[j].pattern, path)].handler

\* the handler of the first matching route
RouteOf(path) ==
    Routes[CHOOSE k \in 1..Len(Routes) :
               /\ Matches(Routes[k].pattern, path)
               /\ \A j \in 1..(k - 1) : ~Matches(Routes[j].pattern, path)].handler

\* the paths requested: the histories of the learners and of "educator", the
\* assignments of a learner, the list, a quiz by its id (id0: of no quiz)
Paths ==
    {<<"history", u>> : u \in Users \cup {"educator"}}
    \cup {<<"assignments", u>> : u \in Users}
    \cup {<<"list">>}
    \cup {<<IdText(id)>> : id \in 0..2}

\* GET /quiz/<path>
Get(path) ==
    LET handler == RouteOf(path)
    IN  CASE handler = "get_quiz_history" ->
                 get_quiz_history(path, path[2])
          [] handler = "get_student_assignments" ->
                 get_student_assignments(path, path[2])
          [] handler = "list_quizzes" -> list_quizzes(path)
          [] handler = "get_quiz_by_id" -> get_quiz_by_id(path, QuizIdOf(path[1]))
          [] handler = "get_educator_quiz_history" -> get_educator_quiz_history(path)

\* ============================================== the routes, in longer runs
\* The same handlers with fewer inputs per request, so that runs of more
\* requests (generate, assign, submit, submit again) are covered.

\* The largest number of POST requests in a run of SpecFlow.
MaxPosts == 4

\* the model call fails, or returns the two example questions
FlowUpstreams ==
    {u \in Upstreams :
        ~u.ok \/ u.blocks = <<Canonical(Q0), Canonical(Q1)>>}

FlowRequests == {[topic |-> "geography", difficulty |-> 3, num_questions |-> 2]}

\* every question answered right, only the first one, none answered
FlowSheets(quiz_id) ==
    {answers \in AnswerSheets(quiz_id) :
        \/ answers = EmptyDict
        \/ /\ \A key \in DOMAIN answers :
                  \E k \in 1..Len(quiz_storage[quiz_id].questions) :
                      /\ key = StrOf(k - 1)
                      /\ answers[key] = AnswerOf(quiz_storage[quiz_id].questions[k], "exact")
           /\ DOMAIN answers \in
                  {{StrOf(0)},
                   {StrOf(k - 1) : k \in 1..Len(quiz_storage[quiz_id].questions)}}}

FlowStudentLists == {<<"s1">>, <<"s1", "s2">>}

FlowGenerate ==
    /\ clock < MaxPosts
    /\ \E request \in FlowRequests, upstream \in FlowUpstreams :
        generate_quiz(request, upstream)

FlowSubmit ==
    /\ clock < MaxPosts
    /\ \E quiz_id \in DOMAIN quiz_storage \cup {0}, user_id \in Users :
        \E answers \in FlowSheets(quiz_id) :
            submit_quiz([quiz_id |-> quiz_id, user_id |-> user_id, answers |-> answers])

FlowAssign ==
    /\ clock < MaxPosts
    /\ \E quiz_id \in DOMAIN quiz_storage \cup {0}, student_ids \in FlowStudentLists :
        assign_quiz([quiz_id |-> quiz_id, student_ids |-> student_ids,
                     notification_message |-> "Please take this quiz"])

FlowGet == \E path \in Paths : Get(path)

FlowNext == FlowGenerate \/ FlowSubmit \/ FlowAssign \/ FlowGet

SpecFlow == Init /\ [][FlowNext]_vars

\* ===================================================== claims on the routes
\* the quizzes a response serves to a client
ServedQuizzes ==
    IF response.status # 200 THEN {}
    ELSE CASE response.op \in {"generate", "get_quiz_by_id"} -> {response.body}
           [] response.op = "list_quizzes" ->
                  {response.body.quizzes[k] : k \in 1..Len(response.body.quizzes)}
           [] OTHER -> {}

Redacted(question) ==
    "correct_answer" \notin DOMAIN question /\ "explanation" \notin DOMAIN question

\* C14. Redaction: in every response that serves a quiz (generate, the quiz
\* list, get-by-id) every question has neither a correct_answer field nor an
\* explanation field.
C14_Redaction ==
    \A quiz \in ServedQuizzes :
        \A k \in 1..Len(quiz.questions) : Redacted(quiz.questions[k])

\* C15. Quiz immutability: a stored quiz stays stored and keeps its id, title,
\* topic, difficulty and questions (options, correct_answer and explanation
\* of each) through every later request, the redacted responses included.
C15_QuizImmutable ==
    [][\A id \in DOMAIN quiz_storage :
           id \in DOMAIN quiz_storage' /\ quiz_storage'[id] = quiz_storage[id]]_vars

\* a quiz served redacted after it was assigned and graded, its answer key
\* still in the store
C15_Witness ==
    /\ response.op \in {"list_quizzes", "get_quiz_by_id"}
    /\ response.status = 200
    /\ quiz_results # EmptyDict
    /\ assignments # EmptyDict
    /\ \E id \in DOMAIN quiz_storage :
        /\ quiz_storage[id].questions[2].correct_answer = "B"
        /\ quiz_storage[id].questions[2].explanation = Q1.explanation
        /\ QuizCopy(quiz_storage[id]) \in ServedQuizzes

\* C16. Upstream-call failure: when the model call of a generate request
\* fails, the request ends with an error and no quiz is created:
\* quiz_storage and quiz_generation_history are as before the request.
C16_UpstreamFailure ==
    [][(\E request \in FlowRequests, upstream \in FlowUpstreams :
            ~upstream.ok /\ generate_quiz(request, upstream))
       => /\ response'.op = "generate"
          /\ response'.status = 500
          /\ quiz_storage' = quiz_storage
          /\ quiz_generation_history' = quiz_generation_history]_vars

\* a generate request that failed after a quiz had been created
C16_Witness ==
    /\ response.op = "generate"
    /\ response.status = 500
    /\ quiz_storage # EmptyDict
    /\ DOMAIN quiz_generation_history = DOMAIN quiz_storage

\* ---------------------------------------------------------------------
\* Two learners submitting while the event loop may switch handlers at the
\* await of submit_quiz
\* ---------------------------------------------------------------------

ConcSubmit ==
    /\ clock < MaxPosts
    /\ \E quiz_id \in DOMAIN quiz_storage, user_id \in Users :
        \E answers \in FlowSheets(quiz_id) :
            submit_quiz_await([quiz_id |-> quiz_id, user_id |-> user_id,
                               answers |-> answers])

ConcReturn == \E user_id \in Users : submit_quiz_return(user_id)

ConcNext == FlowGenerate \/ ConcSubmit \/ ConcReturn

SpecConc == Init /\ [][ConcNext]_vars

\* the response of a submit_quiz call that started at tick "started" and ran
\* with no other request in between
RunAlone(submission, started) ==
    [op |-> "submit", request |-> submission, status |-> 200,
     body |-> [SubmitResult(submission) EXCEPT !.submitted_at = started]]

\* the result of every submit_quiz call, suspended or returned, is recorded
C17_Recorded ==
    \A user_id \in DOMAIN coroutines :
        \E key \in DOMAIN quiz_results :
            quiz_results[key] = coroutines[user_id].result

\* a suspended submit_quiz call returns what it would have returned alone,
\* and the step leaves the quizzes and the recorded results alone
C17_ReturnsAsAlone ==
    \A user_id \in Users :
        submit_quiz_return(user_id) =>
            /\ response' = RunAlone(coroutines[user_id].submission,
                                    coroutines[user_id].result.submitted_at)
            /\ quiz_storage' = quiz_storage
            /\ quiz_results' = quiz_results

\* C17. Concurrent grading: however two submit_quiz requests of different
\* learners interleave at the awaited vector-store write, each returns the
\* result it would return if run alone, both results are recorded, and no
\* step changes a stored quiz.
C17_ConcurrentGrading ==
    /\ []C17_Recorded
    /\ [][C17_ReturnsAsAlone]_vars
    /\ [][\A id \in DOMAIN quiz_storage :
              id \in DOMAIN quiz_storage' /\ quiz_storage'[id] = quiz_storage[id]]_vars

\* s1 submitted and returned while s2, who had submitted other answers to
\* the same quiz before, was still suspended at the await
C17_Witness ==
    /\ DOMAIN coroutines = {"s1", "s2"}
    /\ coroutines["s1"].pc = "done"
    /\ coroutines["s2"].pc = "await"
    /\ coroutines["s1"].submission.quiz_id = coroutines["s2"].submission.quiz_id
    /\ coroutines["s2"].result.submitted_at < coroutines["s1"].result.submitted_at
    /\ coroutines["s1"].result.score # coroutines["s2"].result.score
    /\ response.op = "submit"
    /\ response.body = coroutines["s1"].result

\* ---------------------------------------------------------------------
\* Histories and assignments over sequences of requests
\* ---------------------------------------------------------------------

\* the learner a history was asked for
AskedFor == response.request[2]

\* a returned history holds results of the asked learner only, newest first
C18_OwnNewestFirst ==
    (response.op = "get_quiz_history" /\ response.body.history \notin PineconeHistories) =>
        LET history == response.body.history
        IN  /\ \A k \in 1..Len(history) :
                   \E key \in DOMAIN quiz_results :
                       /\ quiz_results[key].user_id = AskedFor
                       /\ history[k] = HistoryItem(quiz_results[key])
            /\ \A k \in 1..(Len(history) - 1) :
                   history[k].submitted_at >= history[k + 1].submitted_at

\* a graded submission of learner u adds one entry to what
\* get_quiz_history(u) returns from the results kept
C18_OnePerSubmission ==
    (response'.op = "submit" /\ response'.status = 200 /\ clock' = clock + 1) =>
        Len(LocalHistory(quiz_results', response'.request.user_id)) =
            Len(LocalHistory(quiz_results, response'.request.user_id)) + 1

\* C18. Learner history: after any sequence of submissions,
\* get_quiz_history(u) returns results of learner u only, one entry per
\* submission made by u, newest first by submission time.
C18_LearnerHistory ==
    /\ []C18_OwnNewestFirst
    /\ [][C18_OnePerSubmission]_vars

\* the assignments made of a quiz
AssignmentsOf(quiz_id) ==
    {a \in DOMAIN assignments : assignments[a].quiz_id = quiz_id}

\* C19. Educator history: once a quiz has been generated,
\* GET /quiz/history/educator is answered by the educator-history operation
\* with a non-empty history that has an entry for the quiz with its status;
\* once the quiz is assigned to N students the entry says "assigned" and
\* total_assigned = N.
C19_EducatorHistory ==
    (/\ response.op \in {"get_quiz_history", "get_educator_quiz_history"}
     /\ response.request = <<"history", "educator">>
     /\ quiz_storage # EmptyDict) =>
        /\ response.op = "get_educator_quiz_history"
        /\ response.body.history # <<>>
        /\ \A quiz_id \in DOMAIN quiz_storage :
               \E k \in 1..Len(response.body.history) :
                   LET entry == response.body.history[k]
                   IN  /\ entry.quiz_id = quiz_id
                       /\ entry.status = quiz_generation_history[quiz_id].status
                       /\ AssignmentsOf(quiz_id) # {} =>
                              /\ entry.status = "assigned"
                              /\ \E a \in AssignmentsOf(quiz_id) :
                                     entry.total_assigned =
                                         Len(assignments[a].student_ids)

\* the step is a graded submission of quiz quiz_id by student student_id
GradedSubmission(student_id, quiz_id) ==
    /\ clock' = clock + 1
    /\ response'.op = "submit"
    /\ response'.status = 200
    /\ response'.request.user_id = student_id
    /\ response'.request.quiz_id = quiz_id

\* the entries a student is listed with
EntriesOf(sa, student_id) ==
    IF student_id \in DOMAIN sa THEN sa[student_id] ELSE <<>>

\* an entry stays listed, for the same quiz, and is open until the student's
\* graded submission of its quiz completes it with the score of that
\* submission; nothing else completes it
C20_OpenUntilSubmitted ==
    \A student_id \in Users :
        LET before == EntriesOf(student_assignments, student_id)
            after == EntriesOf(student_assignments', student_id)
        IN  /\ Len(before) <= Len(after)
            /\ \A k \in 1..Len(before) :
                   /\ after[k].quiz_id = before[k].quiz_id
                   /\ after[k].assignment_id = before[k].assignment_id
                   /\ ~before[k].completed =>
                          IF GradedSubmission(student_id, before[k].quiz_id)
                          THEN /\ after[k].completed
                               /\ after[k].score = response'.body.score
                          ELSE after[k] = before[k]
            /\ \A k \in (Len(before) + 1)..Len(after) : ~after[k].completed

\* a completed entry stays completed with the score it was completed with
C20_CompletedForGood ==
    \A student_id \in Users :
        LET before == EntriesOf(student_assignments, student_id)
            after == EntriesOf(student_assignments', student_id)
        IN  \A k \in 1..Len(before) :
                (before[k].completed /\ k <= Len(after)) =>
                    /\ after[k].completed
                    /\ after[k].score = before[k].score

\* C20. Assignment lifecycle: after assign(q, S) each student of S has an
\* entry for q that is listed as not completed until the student's first
\* graded submission of q and as completed, with the score of that
\* submission, ever after; submissions of other students and assignments of
\* other quizzes never change the entry.
C20_AssignmentLifecycle ==
    /\ [][C20_OpenUntilSubmitted]_vars
    /\ [][C20_CompletedForGood]_vars

\* ---------------------------------------------------------------------
\* Error outcomes and store consistency
\* ---------------------------------------------------------------------

\* the response r answers a request that names a quiz id, and which one
NamesQuiz(r) == r.op \in {"submit", "assign", "get_quiz_by_id"}

NamedQuiz(r) ==
    IF r.op = "get_quiz_by_id" THEN QuizIdOf(r.request[1]) ELSE r.request.quiz_id

\* a request naming an unknown quiz is answered 404 "Quiz not found"
C21_NotFoundOutcome ==
    (NamesQuiz(response) /\ NamedQuiz(response) \notin DOMAIN quiz_storage) =>
        /\ response.status = 404
        /\ response.detail = "Quiz not found"

\* a request naming an unknown quiz leaves the stores as they were
C21_StoresUntouched ==
    (/\ response' # response \/ clock' # clock
     /\ NamesQuiz(response')
     /\ NamedQuiz(response') \notin DOMAIN quiz_storage) =>
        UNCHANGED <<quiz_storage, quiz_results, assignments, assignment_history,
                    student_assignments, quiz_generation_history>>

\* C21. Unknown quiz: a submit, assign or get-by-id request naming a quiz id
\* that is not stored ends with HTTP 404 "Quiz not found" and leaves the
\* quiz store, the result store and all assignment records unchanged.
C21_UnknownQuiz ==
    /\ []C21_NotFoundOutcome
    /\ [][C21_StoresUntouched]_vars

\* ---------------------------------------------------------------------
\* The parser again: fallbacks, explanations, question texts
\* ---------------------------------------------------------------------

\* what parsing returns when no block yields a question
ZeroValidFallback == parse_quiz_output([type |-> "str", val |-> <<>>]).value

\* the explanation says that the question is a fallback for a parsing failure
StatesParsingFailure(explanation) ==
    explanation = <<"This is a fallback question due to parsing error.">>

\* the exception inside parsing happened: re.split got a value that is no str
ParsedWithException == parse_pc = "parsed" /\ output_text.type # "str"

\* C22. The fallback returned when an exception occurs inside parsing is the
\* same output as the fallback returned when parsing yields no valid
\* question, and its explanation says it is a fallback due to parsing failure.
C22_OneFallback ==
    ParsedWithException =>
        /\ parsed.value = ZeroValidFallback
        /\ \A k \in 1..Len(parsed.value) :
               StatesParsingFailure(parsed.value[k].explanation)

\* the non-empty lines of a text, each stripped
LinesOf(text) ==
    LET raw == SplitTok(text, {"\n"})
    IN  SelectSeq([i \in 1..Len(raw) |-> Strip(raw[i])], NonEmpty)

\* line occurs in text
Contains(text, line) ==
    \E p \in 1..(Len(text) - Len(line) + 1) : SubSeq(text, p, p + Len(line) - 1) = line

\* every block of the text is one the parser keeps
AllAccepted ==
    /\ IsParsedStr
    /\ Len(blocks) >= 1
    /\ \A i \in 1..Len(blocks) : Accepted(blocks[i])

\* C24. The question text of a parsed question consists of the non-empty
\* lines of its block before the first option line: when the question spans
\* several lines, all of them are part of the question text.
C24_QuestionLines ==
    AllAccepted =>
        /\ Len(parsed.value) = Len(blocks)
        /\ \A i \in 1..Len(blocks) :
               \A k \in 1..Len(LinesOf(blocks[i].q.question)) :
                   Contains(parsed.value[i].question, LinesOf(blocks[i].q.question)[k])

\* Blocks that differ in their explanation: on one line, on two lines (the
\* second padded), a keyword without text, a keyword without text before a
\* line of text, no explanation line; and a block the parser drops.
QLongExpl ==
    [Q1 EXCEPT !.explanation =
        <<"Mercury", " ", "is closest.", "\n", " ", "It orbits at 58 million km.", " ">>]

QLateExpl == [Q0 EXCEPT !.explanation = <<"\n", "Paris is the capital.">>]

ExplBlocks ==
    {Canonical(Q0), Canonical(QLongExpl), Canonical(QNoExpl), Canonical(QLateExpl),
     Defective(Q0, "no_explanation"), Defective(Q1, "missing_option")}

\* the model's text grows by one of these blocks
ComposeExplBlock ==
    /\ parse_pc = "compose"
    /\ output_text.type = "str"
    /\ Len(blocks) < MaxBlocks
    /\ \E d \in ExplBlocks :
        /\ output_text' = [output_text EXCEPT !.val = @ \o Render(Len(blocks) + 1, d)]
        /\ blocks' = Append(blocks, d)
    /\ UNCHANGED <<parse_pc, parsed, router_vars, frontend>>

ExplNext == ComposeExplBlock \/ ComposeNonStr \/ Parse

SpecExplain == ParseInit /\ [][ExplNext]_vars

\* lines joined by one blank
RECURSIVE JoinLines(_, _)
JoinLines(lines, k) ==
    IF k > Len(lines) THEN <<>>
    ELSE IF k = Len(lines) THEN lines[k]
    ELSE lines[k] \o <<" ">> \o JoinLines(lines, k + 1)

\* the text on the EXPLANATION line of a rendered block (empty: no such line,
\* or the keyword alone)
KeywordLineText(d) ==
    IF d.has_expl THEN Strip(SplitTok(d.q.explanation, {"\n"})[1]) ELSE <<>>

\* the explanation the claim gives a kept block
ClaimedExplanation(d) ==
    IF KeywordLineText(d) = <<>>
    THEN <<"The correct answer is ", d.q.correct_answer, ".">>
    ELSE JoinLines(LinesOf(d.q.explanation), 1)

\* the blocks the parser keeps, in order
KeptBlocks == SelectSeq(blocks, Accepted)

AssignedNow(quiz_id) ==
    /\ clock' = clock + 1
    /\ response'.op = "assign"
    /\ response'.status = 200
    /\ response'.request.quiz_id = quiz_id

\* the step is an assign request that failed
AssignFailedNow ==
    /\ clock' = clock + 1
    /\ response'.op = "assign"
    /\ response'.status # 200

C25_StatusStep ==
    /\ \A quiz_id \in DOMAIN quiz_generation_history :
           /\ quiz_id \in DOMAIN quiz_generation_history'
           /\ quiz_generation_history[quiz_id].status = "assigned" =>
                  quiz_generation_history'[quiz_id].status = "assigned"
           /\ quiz_generation_history[quiz_id].status = "generated" =>
                  IF AssignedNow(quiz_id)
                  THEN quiz_generation_history'[quiz_id].status = "assigned"
                  ELSE quiz_generation_history'[quiz_id].status = "generated"
    /\ \A quiz_id \in DOMAIN quiz_generation_history' \ DOMAIN quiz_generation_history :
           quiz_generation_history'[quiz_id].status = "generated"
    /\ AssignFailedNow => quiz_generation_history' = quiz_generation_history

ReferredQuizzes ==
    {quiz_results[key].quiz_id : key \in DOMAIN quiz_results}
    \cup {assignments[a].quiz_id : a \in DOMAIN assignments}
    \cup {assignment_history[a].quiz_id : a \in DOMAIN assignment_history}
    \cup UNION {{student_assignments[student_id][k].quiz_id :
                    k \in 1..Len(student_assignments[student_id])} :
                student_id \in DOMAIN student_assignments}

\* C26. Store consistency: in every reachable state quiz_generation_history
\* and quiz_storage have the same ids, each history record's num_questions is
\* the stored quiz's number of questions, which is at least 1, and every
\* stored result and assignment record refers to a stored quiz.
C26_StoreConsistency ==
    /\ DOMAIN quiz_generation_history = DOMAIN quiz_storage
    /\ \A quiz_id \in DOMAIN quiz_storage :
           /\ quiz_generation_history[quiz_id].num_questions =
                  Len(quiz_storage[quiz_id].questions)
           /\ Len(quiz_storage[quiz_id].questions) >= 1
           /\ quiz_generation_history[quiz_id].quiz_id = quiz_id
           /\ quiz_storage[quiz_id].id = quiz_id
    /\ ReferredQuizzes \subseteq DOMAIN quiz_storage

\* two quizzes stored, one of them assigned and graded
C26_Witness ==
    /\ Cardinality(DOMAIN quiz_storage) = 2
    /\ quiz_results # EmptyDict
    /\ assignments # EmptyDict
    /\ student_assignments # EmptyDict
    /\ ReferredQuizzes # {}

\* the results kept for a learner and a quiz
ResultsOf(results, user_id, quiz_id) ==
    {key \in DOMAIN results :
        results[key].user_id = user_id /\ results[key].quiz_id = quiz_id}

\* at most one result per learner and quiz
C27_AtMostOne ==
    \A user_id \in Users, quiz_id \in DOMAIN quiz_storage :
        Cardinality(ResultsOf(quiz_results, user_id, quiz_id)) <= 1

\* a graded submission puts its result in the place of the learner's earlier
\* result for the quiz, and no other result changes
C27_Replaces ==
    (clock' = clock + 1 /\ response'.op = "submit" /\ response'.status = 200) =>
        LET user_id == response'.request.user_id
            quiz_id == response'.request.quiz_id
        IN  /\ \A key \in ResultsOf(quiz_results', user_id, quiz_id) :
                   quiz_results'[key] = response'.body
            /\ ResultsOf(quiz_results', user_id, quiz_id) # {}
            /\ \A key \in DOMAIN quiz_results \ ResultsOf(quiz_results, user_id, quiz_id) :
                   key \in DOMAIN quiz_results' /\ quiz_results'[key] = quiz_results[key]
            /\ \A key \in DOMAIN quiz_results' \ ResultsOf(quiz_results', user_id, quiz_id) :
                   key \in DOMAIN quiz_results

\* C27. The result store holds at most one result per (learner, quiz) pair:
\* a later graded submission by the same learner for the same quiz replaces
\* the earlier result, and the results of other pairs are unaffected.
C27_OneResultPerPair ==
    /\ []C27_AtMostOne
    /\ [][C27_Replaces]_vars

\* s1's second submission of a quiz is the one result kept for s1 and the
\* quiz, next to the result of s2 for that quiz
C27_Witness ==
    /\ response.op = "submit"
    /\ response.status = 200
    /\ response.request.user_id = "s1"
    /\ clock = 4
    /\ \E key \in DOMAIN quiz_results :
           /\ quiz_results[key] = response.body
           /\ quiz_results[key].submitted_at = 4
    /\ \E key \in DOMAIN quiz_results :
           /\ quiz_results[key].user_id = "s2"
           /\ quiz_results[key].quiz_id = response.request.quiz_id
    /\ Cardinality(DOMAIN quiz_results) = 2

\* the entries get_educator_quiz_history builds in the current state
EducatorEntries ==
    {EducatorItem(quiz_id) :
        quiz_id \in DOMAIN quiz_generation_history \cap DOMAIN quiz_storage}

\* C28. In every educator-history entry completed_count never exceeds
\* total_assigned and completion_rate lies within [0, 100], after any
\* sequence of generate, assign (repeated too) and submit requests
\* (submissions by learners the quiz was not assigned to included).
C28_CompletionBounds ==
    \A entry \in EducatorEntries :
        /\ entry.completed_count <= entry.total_assigned
        /\ 0 <= entry.completion_rate.num
        /\ entry.completion_rate.num <= 100 * entry.completion_rate.den

\* ---------------------------------------------------------------------
\* What the responses tell about the answer key
\* ---------------------------------------------------------------------

\* the questions that differ from question in nothing but the answer key
AltQuestions(question) ==
    {[question EXCEPT !.correct_answer = letter, !.explanation = explanation] :
        letter \in {"A", "B", "C", "D"},
        explanation \in {question.explanation, <<"Another explanation.">>}}

\* the lists of questions that differ from questions[k..] in nothing but the
\* answer keys
RECURSIVE AltLists(_, _)
AltLists(questions, k) ==
    IF k > Len(questions) THEN {<<>>}
    ELSE {<<first>> \o rest :
             first \in AltQuestions(questions[k]), rest \in AltLists(questions, k + 1)}

\* the quizzes that differ from quiz in nothing but the answer keys
KeyVariants(quiz) ==
    {[quiz EXCEPT !.questions = questions] : questions \in AltLists(quiz.questions, 1)}

\* C29. Answer-key noninterference: for stored quizzes that differ only in
\* the correct_answer and explanation of their questions, the generate
\* response, the quiz list and get-by-id return identical content.
C29_KeyNoninterference ==
    response.status = 200 =>
        /\ response.op = "generate" =>
               \A other \in KeyVariants(quiz_storage[response.body.id]) :
                   QuizForFrontend(other) = response.body
        /\ response.op = "get_quiz_by_id" =>
               \A other \in KeyVariants(quiz_storage[response.body.id]) :
                   QuizCopy(other) = response.body
        /\ response.op = "list_quizzes" =>
               \A k \in 1..Len(response.body.quizzes) :
                   \A other \in KeyVariants(quiz_storage[response.body.quizzes[k].id]) :
                       QuizCopy(other) = response.body.quizzes[k]

\* the list served while it holds a quiz whose stored key is not the default
\* letter
C29_Witness ==
    /\ response.op = "list_quizzes"
    /\ response.status = 200
    /\ Len(response.body.quizzes) = 2
    /\ \E id \in DOMAIN quiz_storage :
           \E k \in 1..Len(quiz_storage[id].questions) :
               quiz_storage[id].questions[k].correct_answer = "B"

\* ---------------------------------------------------------------------
\* The quiz page of the frontend (frontend/pages/quiz_interface.py).  One
\* action is one run of the script, started by one widget: a button that
\* was pressed, an answer that was picked, the timer that ran out.
\* ---------------------------------------------------------------------

\* The largest number of questions of a quiz the backend hands to the page.
MaxSessionQuestions == 3

\* what QuizGenerator.generate_quiz returns with status 200: a quiz of at
\* least one question
GeneratedQuizzes == {[id |-> 1, questions |-> n] : n \in 1..MaxSessionQuestions}

\* the choices of the "Time Limit" selectbox that the page tells apart
TimeLimits == {"No Limit", "15 minutes"}

SessionStep(session_state, reply) ==
    /\ frontend' = [session_state |-> session_state, reply |-> reply]
    /\ UNCHANGED <<parse_vars, router_vars>>

\* login.py: st.session_state.user = result['user']
Login ==
    /\ frontend.session_state.user = "None"
    /\ SessionStep([frontend.session_state EXCEPT !.user = "s1"], frontend.reply)

\* generate_quiz_from_setup, from the form or from a template button; quiz
\* is what QuizGenerator.generate_quiz returned (NoQuiz: None)
generate_quiz_from_setup(quiz, time_limit) ==
    /\ frontend.session_state.quiz_state = "setup"
    /\ IF quiz # NoQuiz
       THEN SessionStep([frontend.session_state EXCEPT
                            !.current_quiz = quiz,
                            !.quiz_answers = {},
                            !.current_question = 0,
                            !.quiz_state = "active",
                            !.time_limit = time_limit],
                        [call |-> "generate", ok |-> TRUE])
       ELSE SessionStep(frontend.session_state, [call |-> "generate", ok |-> FALSE])

GenerateFromSetup ==
    \E quiz \in GeneratedQuizzes \cup {NoQuiz}, time_limit \in TimeLimits :
        generate_quiz_from_setup(quiz, time_limit)

\* the page shows a question of the quiz being taken
Active == frontend.session_state.quiz_state = "active"

total_questions == frontend.session_state.current_quiz.questions

current_q == frontend.session_state.current_question

\* st.radio: an option was picked for the question shown
SelectAnswer ==
    /\ Active
    /\ SessionStep([frontend.session_state EXCEPT !.quiz_answers = @ \cup {current_q}],
                   frontend.reply)

\* "if current_q > 0:" the Previous button
Previous ==
    /\ Active
    /\ current_q > 0
    /\ SessionStep([frontend.session_state EXCEPT !.current_question = @ - 1],
                   frontend.reply)

\* (mutant) the Next button is shown on the last question too
NextShown_Always(session_state) == TRUE

\* "if current_q < total_questions - 1:" the Next button is shown
NextShown(session_state) ==
    session_state.current_question < session_state.current_quiz.questions - 1

\* the Next button, disabled while no option is selected
NextQuestion ==
    /\ Active
    /\ NextShown(frontend.session_state)
    /\ current_q \in frontend.session_state.quiz_answers
    /\ SessionStep([frontend.session_state EXCEPT !.current_question = @ + 1],
                   frontend.reply)

\* a button of the question overview
Overview ==
    /\ Active
    /\ \E i \in 0..(total_questions - 1) :
        SessionStep([frontend.session_state EXCEPT !.current_question = i],
                    frontend.reply)

\* quiz_interface.submit_quiz: nothing without a user; result is what
\* QuizGenerator.submit_quiz returned ("None": the request failed)
ui_submit_quiz(result) ==
    IF frontend.session_state.user = "None"
    THEN SessionStep(frontend.session_state, frontend.reply)
    ELSE IF result # "None"
    THEN SessionStep([frontend.session_state EXCEPT
                         !.quiz_state = "completed", !.quiz_results = result],
                     [call |-> "submit", ok |-> TRUE])
    ELSE SessionStep(frontend.session_state, [call |-> "submit", ok |-> FALSE])

\* "Finish Quiz" on the last question, "Submit Early" on another one: both
\* need every question answered
FinishQuiz ==
    /\ Active
    /\ Cardinality(frontend.session_state.quiz_answers) = total_questions
    /\ \E result \in {"None", "result"} : ui_submit_quiz(result)

\* render_timer: the time is up, the quiz is submitted as it is
TimeUp ==
    /\ Active
    /\ frontend.session_state.time_limit # "No Limit"
    /\ \E result \in {"None", "result"} : ui_submit_quiz(result)

\* render_quiz_results: "Retake Quiz" and "Back to Dashboard" do the same
LeaveResults ==
    /\ frontend.session_state.quiz_state = "completed"
    /\ SessionStep([frontend.session_state EXCEPT
                       !.quiz_state = "setup",
                       !.current_quiz = NoQuiz,
                       !.quiz_answers = {},
                       !.quiz_results = "None",
                       !.current_question = 0],
                   frontend.reply)

SessionNext ==
    \/ Login \/ GenerateFromSetup \/ SelectAnswer \/ Previous \/ NextQuestion
    \/ Overview \/ FinishQuiz \/ TimeUp \/ LeaveResults

SpecSession == Init /\ [][SessionNext]_vars

\* while a quiz is taken the question shown is one of the quiz
C30_QuestionInRange ==
    Active => /\ 0 <= current_q
              /\ current_q <= total_questions - 1

\* the moves of quiz_state and what they need
C30_Moves ==
    LET before == frontend.session_state.quiz_state
        after == frontend'.session_state.quiz_state
    IN  /\ after # before =>
               <<before, after>> \in {<<"setup", "active">>, <<"active", "completed">>,
                                      <<"completed", "setup">>}
        /\ (after = "active" /\ before # "active") =>
               /\ frontend'.reply = [call |-> "generate", ok |-> TRUE]
               /\ frontend'.session_state.current_quiz \in GeneratedQuizzes
        /\ (after = "completed" /\ before # "completed") =>
               /\ frontend'.reply = [call |-> "submit", ok |-> TRUE]
               /\ frontend'.session_state.quiz_results # "None"
        /\ (before = "active" /\ frontend'.reply # frontend.reply
              /\ frontend'.reply = [call |-> "submit", ok |-> FALSE]) =>
               after = "active"
        /\ (before = "setup" /\ frontend'.reply # frontend.reply
              /\ frontend'.reply = [call |-> "generate", ok |-> FALSE]) =>
               after = "setup"

\* C30. The session of the quiz page: quiz_state only moves setup -> active
\* -> completed -> setup; it becomes active only when generation returned a
\* quiz and completed only when a submission returned a result (a failed
\* submission leaves it active); while it is active current_question stays
\* within 0..(number of questions - 1) under Previous, Next and the overview.
C30_SessionStateMachine ==
    /\ []C30_QuestionInRange
    /\ [][C30_Moves]_vars

\* a submission failed on the last question of a quiz of three, every
\* question answered: the quiz is still being taken
C30_Witness ==
    /\ Active
    /\ total_questions = 3
    /\ current_q = 2
    /\ frontend.session_state.quiz_answers = {0, 1, 2}
    /\ frontend.reply = [call |-> "submit", ok |-> FALSE]

====
